---------------------------- MODULE Spec2Model ----------------------------
(***************************************************************************)
(* A model of the graph-construction core of the editor: the path          *)
(* abstraction (workspace/path.py), the workspace with its file list and   *)
(* config (workspace/workspace.py) and the per-file import loader and      *)
(* linker (graph/py_file.py, graph/edge.py).                               *)
(*                                                                         *)
(* Strings are sequences of one-character strings, so that len, slicing,   *)
(* startswith, join, split and normalisation are computed as the code      *)
(* computes them.                                                          *)
(***************************************************************************)
EXTENDS Integers, Sequences, FiniteSets, TLC

VARIABLES
    path,            \* SpecPath: the Path object under test
    call,            \* SpecPath: the last method call on it and its result
    fs,              \* the directory tree below /r: node -> kind
    wsDir,           \* whether the workspace directory exists
    cfgFile,         \* the file <workspace_dir>/config
    wsState,         \* "none" | "ok" | "failed": the Workspace object
    config,          \* Workspace.config
    files,           \* Workspace.files
    file_listeners,  \* Workspace.file_listeners
    op,              \* what the last operation did (history)
    pyfile,          \* SpecLoad: the PyFile last constructed
    vertices,        \* SpecGraph: the vertex of each file
    visits,          \* SpecGraph: how often each vertex was linked (history)
    lateAdd          \* SpecGraph: a vertex was added after a link step (history)

pathVars == <<path, call>>
wsVars == <<fs, wsDir, cfgFile, wsState, config, files, file_listeners, op>>
graphVars == <<pyfile, vertices, visits, lateAdd>>
vars == <<path, call, fs, wsDir, cfgFile, wsState, config, files,
          file_listeners, op, pyfile, vertices, visits, lateAdd>>

-----------------------------------------------------------------------------
(* Bounds *)

MaxBaseLen == 18     \* longest basename of a path handed to abbreviate
MaxMaxLen == 17      \* largest max_len handed to abbreviate
MinMaxLen == 16      \* abbreviate's assert max_len >= 16

-----------------------------------------------------------------------------
(* Strings *)

Rep(c, n) == [i \in 1..n |-> c]

startswith(s, p) == Len(s) >= Len(p) /\ SubSeq(s, 1, Len(p)) = p

\* a suffix taken from the front: res[:suffix_count]
LastCharsFromFront(s, n) == IF n >= Len(s) THEN s ELSE SubSeq(s, 1, n)

\* s[-n:] for n > 0
LastChars(s, n) == IF n >= Len(s) THEN s ELSE SubSeq(s, Len(s) - n + 1, Len(s))

\* s[:n] for n >= 0
FirstChars(s, n) == IF n >= Len(s) THEN s ELSE SubSeq(s, 1, n)

RECURSIVE SplitAcc(_, _, _, _)
SplitAcc(s, i, cur, acc) ==
    IF i > Len(s) THEN Append(acc, cur)
    ELSE IF s[i] = "/" THEN SplitAcc(s, i + 1, <<>>, Append(acc, cur))
    ELSE SplitAcc(s, i + 1, Append(cur, s[i]), acc)

\* s.split('/')
Split(s) == SplitAcc(s, 1, <<>>, <<>>)

isabs(s) == Len(s) > 0 /\ s[1] = "/"

DotDot == <<".", ".">>
Dot == <<".">>

RECURSIVE NormAcc(_, _, _, _)
NormAcc(comps, i, acc, abs) ==
    IF i > Len(comps) THEN acc
    ELSE LET c == comps[i] IN
         IF c = <<>> \/ c = Dot THEN NormAcc(comps, i + 1, acc, abs)
         ELSE IF c = DotDot THEN
              IF Len(acc) > 0 /\ acc[Len(acc)] # DotDot
              THEN NormAcc(comps, i + 1, SubSeq(acc, 1, Len(acc) - 1), abs)
              ELSE IF abs THEN NormAcc(comps, i + 1, acc, abs)
              ELSE NormAcc(comps, i + 1, Append(acc, c), abs)
         ELSE NormAcc(comps, i + 1, Append(acc, c), abs)

\* the current directory of the process
Cwd == <<"/", "c">>

\* os.path.join(a, b)
join(a, b) ==
    IF isabs(b) THEN b
    ELSE IF a = <<>> \/ a[Len(a)] = "/" THEN a \o b
    ELSE a \o <<"/">> \o b

\* the components of os.path.abspath(s)
AbsComps(s) ==
    NormAcc(Split(IF isabs(s) THEN s ELSE join(Cwd, s)), 1, <<>>, TRUE)

RECURSIVE JoinComps(_, _)
JoinComps(comps, sep) ==
    IF comps = <<>> THEN <<>>
    ELSE IF Len(comps) = 1 THEN comps[1]
    ELSE comps[1] \o sep \o JoinComps(Tail(comps), sep)

\* the absolute path string of a list of components
Render(comps) == <<"/">> \o JoinComps(comps, <<"/">>)

RECURSIVE CommonLen(_, _)
CommonLen(a, b) ==
    IF a = <<>> \/ b = <<>> \/ a[1] # b[1] THEN 0
    ELSE 1 + CommonLen(Tail(a), Tail(b))

\* os.path.relpath(p, start)
relpath(p, start) ==
    LET start_list == AbsComps(start)
        path_list == AbsComps(p)
        i == CommonLen(start_list, path_list)
        rel_list == [k \in 1..(Len(start_list) - i) |-> DotDot]
                    \o SubSeq(path_list, i + 1, Len(path_list))
    IN IF rel_list = <<>> THEN Dot ELSE JoinComps(rel_list, <<"/">>)

\* os.path.basename(s): what follows the last '/'
os_basename(s) == LET parts == Split(s) IN parts[Len(parts)]

\* os.path.dirname(s) of a normalised absolute path
os_dirname(s) ==
    LET comps == AbsComps(s) IN Render(SubSeq(comps, 1, Len(comps) - 1))

-----------------------------------------------------------------------------
(* The directory tree.  A node is the list of components of an absolute    *)
(* path; its kind is "none", "file", "dir" or a symbolic link.             *)

NF == <<"f">>
ND == <<"d">>
NH == <<".", "h">>
NL == <<"l">>
NR == <<"r">>

Nodes == { <<NR, NF>>, <<NR, ND>>, <<NR, NH>>, <<NR, NL>>,
           <<NR, ND, NF>>, <<NR, ND, NH>>, <<NR, NH, NF>> }

\* where a symbolic link of each kind points (a canonical path)
LinkTarget(kind) ==
    IF kind = "linkH" THEN <<NR, NH, NF>> ELSE <<NR, ND>>

IsLink(kind) == kind \in {"linkH", "linkD"}

KindOf(fsys, node) ==
    IF node = <<NR>> THEN "dir"
    ELSE IF node \in DOMAIN fsys THEN fsys[node] ELSE "none"

\* the kind of what a path finally names, symbolic links followed
RECURSIVE Resolve(_, _)
Resolve(fsys, node) ==
    IF IsLink(KindOf(fsys, node)) THEN Resolve(fsys, LinkTarget(KindOf(fsys, node)))
    ELSE node

\* os.path.realpath of an absolute component list: the first component
\* that is a symbolic link is replaced by its target, and so on
RECURSIVE Canon(_, _, _)
Canon(fsys, done, rest) ==
    IF rest = <<>> THEN done
    ELSE LET next == Append(done, rest[1]) IN
         IF IsLink(KindOf(fsys, next))
         THEN Canon(fsys, <<>>, LinkTarget(KindOf(fsys, next)) \o Tail(rest))
         ELSE Canon(fsys, next, Tail(rest))

realpath(fsys, s) == Render(Canon(fsys, <<>>, AbsComps(s)))

NoTree == [n \in Nodes |-> "none"]

-----------------------------------------------------------------------------
(* workspace/path.py *)

\* Path.__init__
Path(fsys, p, ws_root) ==
    [abs |-> IF isabs(p) THEN realpath(fsys, p)
             ELSE realpath(fsys, join(ws_root, p)),
     ws_root |-> ws_root]

rel(p) == relpath(p.abs, p.ws_root)

shortest(p) == IF Len(rel(p)) < Len(p.abs) THEN rel(p) ELSE p.abs

\* ord(c) of the characters that paths are made of
Ord(c) ==
    CASE c = "." -> 46 [] c = "/" -> 47 [] c = "a" -> 97 [] c = "b" -> 98
      [] c = "c" -> 99 [] c = "d" -> 100 [] c = "f" -> 102 [] c = "h" -> 104
      [] c = "i" -> 105 [] c = "l" -> 108 [] c = "m" -> 109 [] c = "n" -> 110
      [] c = "p" -> 112 [] c = "q" -> 113 [] c = "r" -> 114 [] c = "s" -> 115
      [] c = "w" -> 119 [] c = "x" -> 120

\* str.__gt__: a > b, lexicographic by code point
RECURSIVE StrGt(_, _)
StrGt(a, b) ==
    IF a = <<>> THEN FALSE
    ELSE IF b = <<>> THEN TRUE
    ELSE IF a[1] = b[1] THEN StrGt(Tail(a), Tail(b))
    ELSE Ord(a[1]) > Ord(b[1])

\* Path.__eq__
Path_eq(p, q) == <<p.abs, p.ws_root>> = <<q.abs, q.ws_root>>

\* Path.__ge__: self.abs >= other.abs
Path_ge(p, q) == StrGt(p.abs, q.abs) \/ p.abs = q.abs

\* Path.__gt__: self.abs > other.abs
Path_gt(p, q) == StrGt(p.abs, q.abs)

\* Path.__ne__
Path_ne(p, q) == ~Path_eq(p, q)

\* Path.__le__
Path_le(p, q) == ~Path_gt(p, q)

\* Path.__lt__
Path_lt(p, q) == ~Path_ge(p, q)

\* Path.__hash__: the hash of the pair, taken as the pair itself
Path_hash(p) == <<p.abs, p.ws_root>>

\* Path.in_workspace
in_workspace(p) == startswith(p.abs, p.ws_root)

basename(p) == os_basename(p.abs)

\* int(max_len * 2 / 3)
SuffixCount(max_len) == (max_len * 2) \div 3

\* a prefix budget that forgets the two characters of the marker
PrefixCountNoMarker(max_len, suffix_count) ==
    IF max_len - suffix_count < 0 THEN 0 ELSE max_len - suffix_count

\* prefix_count = max_len - suffix_count - 2, clamped at 0
PrefixCount(max_len, suffix_count) ==
    IF max_len - suffix_count - 2 < 0 THEN 0 ELSE max_len - suffix_count - 2

abbreviate(p, max_len, require_basename) ==
    LET res == shortest(p) IN
    IF Len(res) <= max_len THEN res
    ELSE LET s0 == SuffixCount(max_len)
             suffix_count ==
                 IF require_basename /\ s0 < Len(os_basename(res))
                 THEN Len(os_basename(res)) ELSE s0
             prefix_count == PrefixCount(max_len, suffix_count)
         IN FirstChars(res, prefix_count) \o DotDot \o LastChars(res, suffix_count)

-----------------------------------------------------------------------------
(* workspace/workspace.py: the config *)

\* a config is a function from some of the keys to their values
EmptyConfig == [k \in {} |-> <<>>]

Get(cfg, key, default) == IF key \in DOMAIN cfg THEN cfg[key] ELSE default

SetKey(cfg, key, value) ==
    [k \in DOMAIN cfg \cup {key} |-> IF k = key THEN value ELSE cfg[k]]

WorkspaceDir == <<"/", "r", "/", ".", "w">>

\* Workspace.root_dir (getter)
root_dir(cfg) == Get(cfg, "root_dir", os_dirname(WorkspaceDir))

\* Workspace.exclude_files
exclude_files(cfg) == Get(cfg, "exclude_files", <<>>)

\* Workspace.open_files (getter)
open_files(fsys, cfg) ==
    LET stored == Get(cfg, "open_files", <<>>) IN
    [i \in 1..Len(stored) |-> Path(fsys, stored[i], root_dir(cfg))]

\* a setter that stores the absolute paths
OpenFilesStoredAbs(L) == [i \in 1..Len(L) |-> L[i].abs]

\* the value the open_files setter stores: [p.rel for p in files]
OpenFilesStored(L) == [i \in 1..Len(L) |-> rel(L[i])]

AbsentFile == [kind |-> "absent"]
JsonFile(cfg) == [kind |-> "json", value |-> cfg]

\* Workspace._load_config: the config read, or the exception that escapes.
\* open() fails with IOError when the directory or the file is absent or
\* the file cannot be opened; json.loads raises ValueError on other text.
load_config(dir, file) ==
    IF ~dir \/ file.kind \in {"absent", "noaccess"}
    THEN [raised |-> FALSE, config |-> EmptyConfig]
    ELSE IF file.kind = "json"
    THEN [raised |-> FALSE, config |-> file.value]
    ELSE [raised |-> TRUE, config |-> EmptyConfig]

\* a _write_config that makes the workspace directory when it is missing
write_config_makedirs(dir, file, cfg) ==
    IF file.kind = "noaccess" THEN [dir |-> TRUE, file |-> file]
    ELSE [dir |-> TRUE, file |-> JsonFile(cfg)]

\* Workspace._write_config: the directory and the config file afterwards
write_config(dir, file, cfg) ==
    IF ~dir THEN [dir |-> dir, file |-> file]
    ELSE IF file.kind = "noaccess" THEN [dir |-> dir, file |-> file]
    ELSE [dir |-> dir, file |-> JsonFile(cfg)]

-----------------------------------------------------------------------------
(* workspace/workspace.py: the walk of reload_file_list *)

Name(node) == node[Len(node)]
Parent(node) == SubSeq(node, 1, Len(node) - 1)

Hidden(name) == startswith(name, Dot)

InList(name, list) == \E i \in 1..Len(list) : list[i] = name

\* os.scandir: the entries of a directory
Entries(fsys, dirnode) ==
    { n \in Nodes : Parent(n) = dirnode /\ fsys[n] # "none" }

\* DirEntry.is_dir(): symbolic links are followed
IsDirEntry(fsys, n) == KindOf(fsys, Resolve(fsys, n)) = "dir"

\* a filter that forgets the exclusion list for files
SkippedHiddenOnly(name, excl) == Hidden(name)

\* name.startswith(".") or (name in self.exclude_files)
Skipped(name, excl) == Hidden(name) \/ InList(name, excl)

\* dirnames after the pruning loop
Dirnames(fsys, dirnode, excl) ==
    { n \in Entries(fsys, dirnode) :
        IsDirEntry(fsys, n) /\ ~(Hidden(Name(n)) \/ InList(Name(n), excl)) }

Filenames(fsys, dirnode) ==
    { n \in Entries(fsys, dirnode) : ~IsDirEntry(fsys, n) }

RECURSIVE WalkDir(_, _, _, _)
WalkDir(fsys, dirnode, root, excl) ==
    LET dirnames == Dirnames(fsys, dirnode, excl)
        named == { n \in dirnames \cup Filenames(fsys, dirnode) :
                      ~Skipped(Name(n), excl) }
        here == { Path(fsys, realpath(fsys, join(Render(dirnode), Name(n))), root) :
                      n \in named }
    IN here \cup UNION { WalkDir(fsys, n, root, excl) :
                            n \in { m \in dirnames : ~IsLink(fsys[m]) } }

\* os.walk(root, topdown=True) and the loop body: nothing when root is no
\* directory (os.walk swallows the error)
Walk(fsys, root, excl) ==
    IF KindOf(fsys, AbsComps(root)) = "dir"
    THEN WalkDir(fsys, AbsComps(root), root, excl)
    ELSE {}

\* a difference taken the wrong way round
removed_swapped(old_files, new_files) == new_files \ old_files

removed_of(old_files, new_files) == old_files \ new_files

added_of(old_files, new_files) == new_files \ old_files

\* the calls made by "for listener in self.file_listeners", the first n of
\* them when the n-th listener raises
ListenerCalls(listeners, n, removed, added) ==
    [i \in 1..n |-> [listener |-> listeners[i], removed |-> removed, added |-> added]]

-----------------------------------------------------------------------------
(* graph/parsers/python3 (resolve_import, make_finder): the module tree    *)
(* the finder knows, as in PyFileTest.setUp: package p at /p, package p.q  *)
(* at /p/q, module p.q.m at /p/q/m, module p.n at /p/n.  The initializer   *)
(* file of a package is the file i of its directory.                       *)

DirP == <<"/", "p">>
DirPQ == <<"/", "p", "/", "q">>
FileM == <<"/", "p", "/", "q", "/", "m">>
FileN == <<"/", "p", "/", "n">>
InitName == <<"i">>

\* the table handed to make_finder: (name, search path) -> (path, type)
FinderTable ==
    { [seg |-> "p", dir |-> <<>>, type |-> "PKG_DIRECTORY", path |-> DirP],
      [seg |-> "q", dir |-> DirP, type |-> "PKG_DIRECTORY", path |-> DirPQ],
      [seg |-> "m", dir |-> DirPQ, type |-> "PY_SOURCE", path |-> FileM],
      [seg |-> "n", dir |-> DirP, type |-> "PY_SOURCE", path |-> FileN] }

\* resolve_import: the files that importing the dotted name loads, or
\* ImportError (ok = FALSE) when a segment is not found
RECURSIVE ResolveFrom(_, _, _)
ResolveFrom(segs, dir, acc) ==
    IF segs = <<>> THEN [ok |-> TRUE, paths |-> acc]
    ELSE LET hits == { e \in FinderTable : e.seg = segs[1] /\ e.dir = dir } IN
         IF hits = {} THEN [ok |-> FALSE, paths |-> {}]
         ELSE LET e == CHOOSE x \in hits : TRUE IN
              IF e.type = "PKG_DIRECTORY"
              THEN ResolveFrom(Tail(segs), e.path, acc \cup {join(e.path, InitName)})
              ELSE IF Tail(segs) = <<>>
              THEN [ok |-> TRUE, paths |-> acc \cup {e.path}]
              ELSE [ok |-> FALSE, paths |-> {}]

resolve_import(name) == ResolveFrom(name, <<>>, {})

-----------------------------------------------------------------------------
(* graph/py_file.py: PyFile._load.  A source text is either malformed or   *)
(* a list of import statements; a dotted name is the list of its segments. *)
(* A file that ast.parse(f.read()) rejects names the exception it raises:  *)
(* SyntaxError for malformed text, ValueError (UnicodeDecodeError) for     *)
(* bytes that do not decode.                                               *)

Malformed == [ok |-> FALSE, error |-> "SyntaxError", body |-> <<>>]
Undecodable == [ok |-> FALSE, error |-> "ValueError", body |-> <<>>]
Source(body) == [ok |-> TRUE, error |-> "none", body |-> body]

\* ast.alias: name [as asname]
NoAs == <<>>
Alias(name, asname) == [name |-> name, asname |-> asname]

Import(names) == [type |-> "Import", module |-> <<>>, names |-> names]
ImportFrom(module, names) == [type |-> "ImportFrom", module |-> module, names |-> names]

RECURSIVE Flatten(_)
Flatten(seqs) == IF seqs = <<>> THEN <<>> ELSE seqs[1] \o Flatten(Tail(seqs))

\* an import statement of which only the first name is taken
ImportNamesFirstOnly(stmt) ==
    IF stmt.names = <<>> THEN <<>>
    ELSE <<[name |-> stmt.names[1].name, maybe_not_module |-> FALSE]>>

\* for name in n.names: parsed_imports.append((name.name, False))
ImportNames(stmt) ==
    [i \in 1..Len(stmt.names) |->
        [name |-> stmt.names[i].name, maybe_not_module |-> FALSE]]

\* a from-import of which the module itself is not resolved
FromNamesWithoutModule(stmt) ==
    [i \in 1..Len(stmt.names) |->
        [name |-> Append(stmt.module, stmt.names[i].name), maybe_not_module |-> TRUE]]

\* parsed_imports.append((n.module, False)), then '{}.{}'.format(n.module,
\* name.name) with maybe_not_module for each name
FromNames(stmt) ==
    <<[name |-> stmt.module, maybe_not_module |-> FALSE]>>
    \o [i \in 1..Len(stmt.names) |->
          [name |-> Append(stmt.module, stmt.names[i].name), maybe_not_module |-> TRUE]]

parsed_imports(body) ==
    Flatten([k \in 1..Len(body) |->
                IF body[k].type = "Import" THEN ImportNames(body[k])
                ELSE FromNames(body[k])])

\* an exception that is not a SyntaxError leaves _load and __init__
Raised(error) ==
    [raised |-> TRUE, error |-> error, imports |-> {}, resolve_calls |-> <<>>,
     logged |-> {}]

\* except SyntaxError: log and return; imports is the set() of __init__
OnSyntaxError ==
    [raised |-> FALSE, error |-> "none", imports |-> {}, resolve_calls |-> <<>>, logged |-> {}]

\* a resolution loop that the first ImportError ends
ContributingUntilFailure(parsed) ==
    { k \in 1..Len(parsed) : \A j \in 1..k : resolve_import(parsed[j].name).ok }

\* for name, maybe_not_module in parsed_imports: the names whose
\* resolve_import returns; an ImportError is caught inside the loop
Contributing(parsed) ==
    { k \in 1..Len(parsed) : resolve_import(parsed[k].name).ok }

\* PyFile._load: the imports, the names handed to the resolver in order,
\* and the names whose failure is logged
load(fsys, cfg, text) ==
    IF ~text.ok
    THEN IF text.error = "SyntaxError" THEN OnSyntaxError ELSE Raised(text.error)
    ELSE LET parsed == parsed_imports(text.body)
             good == Contributing(parsed)
         IN [raised |-> FALSE, error |-> "none",
             imports |-> { Path(fsys, realpath(fsys, p), root_dir(cfg)) :
                             p \in UNION { resolve_import(parsed[k].name).paths : k \in good } },
             resolve_calls |-> [k \in 1..Len(parsed) |-> parsed[k].name],
             logged |-> { parsed[k].name :
                            k \in { j \in 1..Len(parsed) :
                                      j \notin good /\ ~parsed[j].maybe_not_module } }]

\* PyFile.__init__
PyFile(fsys, cfg, text, no_load) ==
    IF no_load
    THEN [raised |-> FALSE, error |-> "none", imports |-> {},
          resolve_calls |-> <<>>, logged |-> {}]
    ELSE load(fsys, cfg, text)

-----------------------------------------------------------------------------
(* SpecPath: Path objects built from a family of raw paths and roots, and  *)
(* abbreviate called on them.                                              *)

DirNames == { Rep("d", 1), Rep("d", 3) }

RawPaths ==
    { <<"/">> \o d \o <<"/">> \o Rep("b", j) : d \in DirNames, j \in 1..MaxBaseLen }
    \cup { Rep("b", j) : j \in {2, MaxBaseLen} }
    \cup { <<"/">> \o Rep("b", MaxBaseLen) }

\* a root six directories below /bbb...b, from which that path is ../../..
DeepRoot ==
    <<"/">> \o Rep("b", MaxBaseLen)
    \o <<"/", "x", "/", "x", "/", "x", "/", "x", "/", "x", "/", "x">>

Roots == { <<"/", "r">>, <<"/", "d">>, <<"/", "d", "d", "d">>,
           <<"/", "d", "d", "d", "/", "x">>, DeepRoot }

NoCall == [name |-> "none"]

PathVarsInit ==
    /\ path \in { Path(NoTree, p, r) : p \in RawPaths, r \in Roots }
    /\ call = NoCall

CallAbbreviate ==
    /\ \E m \in MinMaxLen..MaxMaxLen, rb \in BOOLEAN :
          call' = [name |-> "abbreviate", max_len |-> m, require_basename |-> rb,
                   result |-> abbreviate(path, m, rb)]
    /\ UNCHANGED <<path, wsVars, graphVars>>

CallInWorkspace ==
    /\ call' = [name |-> "in_workspace", result |-> in_workspace(path)]
    /\ UNCHANGED <<path, wsVars, graphVars>>

\* the Paths that path is compared with
OtherPaths ==
    { Path(NoTree, p, r) :
        p \in { <<"/", "d", "/", "b">>, <<"/", "d", "/", "b", "b">>,
                <<"/", "d", "d", "d", "/", "b">> },
        r \in { <<"/", "r">>, <<"/", "d">> } }

CallCompare ==
    /\ \E q \in OtherPaths :
          call' = [name |-> "compare", other |-> q,
                   eq |-> Path_eq(path, q), ne |-> Path_ne(path, q),
                   lt |-> Path_lt(path, q), gt |-> Path_gt(path, q),
                   le |-> Path_le(path, q), ge |-> Path_ge(path, q),
                   rev_le |-> Path_le(q, path),
                   hash |-> Path_hash(path), other_hash |-> Path_hash(q)]
    /\ UNCHANGED <<path, wsVars, graphVars>>

WsVarsIdle ==
    /\ fs = NoTree
    /\ wsDir = FALSE
    /\ cfgFile = AbsentFile
    /\ wsState = "none"
    /\ config = EmptyConfig
    /\ files = {}
    /\ file_listeners = <<>>
    /\ op = [name |-> "none"]

NoPyFile == [called |-> FALSE]

GraphVarsIdle ==
    /\ pyfile = NoPyFile
    /\ vertices = <<>>
    /\ visits = <<>>
    /\ lateAdd = FALSE

InitPath == PathVarsInit /\ WsVarsIdle /\ GraphVarsIdle

NextPath ==
    \/ CallAbbreviate
    \/ CallInWorkspace
    \/ CallCompare

SpecPath == InitPath /\ [][NextPath]_vars

-----------------------------------------------------------------------------
(* workspace/workspace.py: the operations of a Workspace on /r/.w, and     *)
(* what the environment does to the directory tree and the config file.    *)

\* the kinds each node of the tree may take when it is created
NodeKinds(n) ==
    IF n = <<NR, NL>> THEN {"linkH", "linkD"}
    ELSE IF n \in {<<NR, ND>>, <<NR, NH>>} THEN {"dir"}
    ELSE {"file"}

EnvCreate(n, k) ==
    /\ fs[n] = "none"
    /\ KindOf(fs, Parent(n)) = "dir"
    /\ fs' = [fs EXCEPT ![n] = k]
    /\ op' = [name |-> "env"]
    /\ UNCHANGED <<pathVars, graphVars, wsDir, cfgFile, wsState, config, files, file_listeners>>

EnvRemove(n) ==
    /\ fs[n] # "none"
    /\ Entries(fs, n) = {}
    /\ fs' = [fs EXCEPT ![n] = "none"]
    /\ op' = [name |-> "env"]
    /\ UNCHANGED <<pathVars, graphVars, wsDir, cfgFile, wsState, config, files, file_listeners>>

EnvMkdirWs ==
    /\ ~wsDir
    /\ wsDir' = TRUE
    /\ cfgFile' = AbsentFile
    /\ op' = [name |-> "env"]
    /\ UNCHANGED <<pathVars, graphVars, fs, wsState, config, files, file_listeners>>

EnvRmtreeWs ==
    /\ wsDir
    /\ wsDir' = FALSE
    /\ cfgFile' = AbsentFile
    /\ op' = [name |-> "env"]
    /\ UNCHANGED <<pathVars, graphVars, fs, wsState, config, files, file_listeners>>

EnvWriteConfig(file) ==
    /\ wsDir
    /\ cfgFile # file
    /\ cfgFile' = file
    /\ op' = [name |-> "env"]
    /\ UNCHANGED <<pathVars, graphVars, fs, wsDir, wsState, config, files, file_listeners>>

\* Workspace.__init__
Construct(must_exist) ==
    /\ wsState = "none"
    /\ LET loaded == load_config(wsDir, cfgFile) IN
       IF must_exist /\ ~wsDir
       THEN /\ wsState' = "failed"
            /\ config' = EmptyConfig
            /\ files' = {}
            /\ op' = [name |-> "construct", must_exist |-> must_exist,
                      load_called |-> FALSE, walked |-> FALSE]
       ELSE IF loaded.raised
       THEN /\ wsState' = "failed"
            /\ config' = EmptyConfig
            /\ files' = {}
            /\ op' = [name |-> "construct", must_exist |-> must_exist,
                      load_called |-> TRUE, walked |-> FALSE]
       ELSE /\ wsState' = "ok"
            /\ config' = loaded.config
            /\ files' = Walk(fs, root_dir(loaded.config), exclude_files(loaded.config))
            /\ op' = [name |-> "construct", must_exist |-> must_exist,
                      load_called |-> TRUE, walked |-> TRUE]
    /\ file_listeners' = <<>>
    /\ UNCHANGED <<pathVars, graphVars, fs, wsDir, cfgFile>>

\* the Workspace object is dropped; a new one may be constructed
Discard ==
    /\ wsState # "none"
    /\ wsState' = "none"
    /\ config' = EmptyConfig
    /\ files' = {}
    /\ file_listeners' = <<>>
    /\ op' = [name |-> "discard"]
    /\ UNCHANGED <<pathVars, graphVars, fs, wsDir, cfgFile>>

\* Workspace.reload_file_list; a listener is a callable and may raise, which
\* ends the loop (raiseAt is the position of the listener that raises, 0 if
\* none does)
reload_file_list ==
    /\ wsState = "ok"
    /\ files' = Walk(fs, root_dir(config), exclude_files(config))
    /\ \E raiseAt \in 0..Len(file_listeners) :
          op' = [name |-> "reload", old |-> files, raised |-> raiseAt > 0,
                 calls |-> ListenerCalls(file_listeners,
                               IF raiseAt = 0 THEN Len(file_listeners) ELSE raiseAt,
                               removed_of(files, files'), added_of(files, files'))]
    /\ UNCHANGED <<pathVars, graphVars, fs, wsDir, cfgFile, wsState, config, file_listeners>>

Listeners == {"cb1", "cb2"}

\* w.file_listeners.append(cb)
AppendListener(cb) ==
    /\ wsState = "ok"
    /\ \A i \in 1..Len(file_listeners) : file_listeners[i] # cb
    /\ file_listeners' = Append(file_listeners, cb)
    /\ op' = [name |-> "append_listener"]
    /\ UNCHANGED <<pathVars, graphVars, fs, wsDir, cfgFile, wsState, config, files>>

\* Workspace.open_files (setter)
SetOpenFiles(L) ==
    /\ wsState = "ok"
    /\ LET cfg == SetKey(config, "open_files", OpenFilesStored(L))
           w == write_config(wsDir, cfgFile, cfg)
       IN /\ config' = cfg
          /\ wsDir' = w.dir
          /\ cfgFile' = w.file
    /\ op' = [name |-> "set_open_files", arg |-> L, calls |-> <<>>]
    /\ UNCHANGED <<pathVars, graphVars, fs, wsState, files, file_listeners>>

\* a root_dir setter that goes on to reload the file list
SetRootDirAndReload(root) ==
    /\ wsState = "ok"
    /\ LET cfg == SetKey(config, "root_dir", root)
           w == write_config(wsDir, cfgFile, cfg)
       IN /\ config' = cfg
          /\ wsDir' = w.dir
          /\ cfgFile' = w.file
    /\ files' = Walk(fs, root_dir(config'), exclude_files(config'))
    /\ op' = [name |-> "set_root_dir", arg |-> root,
              calls |-> ListenerCalls(file_listeners, Len(file_listeners),
                                      removed_of(files, files'), added_of(files, files'))]
    /\ UNCHANGED <<pathVars, graphVars, fs, wsState, file_listeners>>

\* Workspace.root_dir (setter)
SetRootDir(root) ==
    /\ wsState = "ok"
    /\ LET cfg == SetKey(config, "root_dir", root)
           w == write_config(wsDir, cfgFile, cfg)
       IN /\ config' = cfg
          /\ wsDir' = w.dir
          /\ cfgFile' = w.file
    /\ op' = [name |-> "set_root_dir", arg |-> root, calls |-> <<>>]
    /\ UNCHANGED <<pathVars, graphVars, fs, wsState, files, file_listeners>>

\* Workspace.python_path
python_path(cfg) == Get(cfg, "python_path", <<>>)

Getters == {"open_files", "root_dir", "python_path", "exclude_files"}

\* reading a property of the Workspace
ReadProperty(name) ==
    /\ wsState = "ok"
    /\ op' = [name |-> "get", property |-> name, calls |-> <<>>,
              value |-> IF name = "open_files" THEN open_files(fs, config)
                        ELSE IF name = "root_dir" THEN root_dir(config)
                        ELSE IF name = "python_path" THEN python_path(config)
                        ELSE exclude_files(config)]
    /\ UNCHANGED <<pathVars, graphVars, fs, wsDir, cfgFile, wsState, config, files,
                   file_listeners>>

PathVarsIdle ==
    /\ path = Path(NoTree, <<"/", "r", "/", "f">>, <<"/", "r">>)
    /\ call = NoCall

-----------------------------------------------------------------------------
(* SpecWalk: a workspace is constructed on one of a few config files, the  *)
(* tree changes, listeners are registered and the file list is reloaded.   *)

RootR == <<"/", "r">>
RootD == <<"/", "r", "/", "d">>

WalkConfigs ==
    { [exclude_files |-> <<ND>>],
      [exclude_files |-> <<NF>>],
      [root_dir |-> RootD],
      [root_dir |-> RootD, exclude_files |-> <<NF>>] }

InitWalk ==
    /\ PathVarsIdle
    /\ fs = NoTree
    /\ wsDir \in BOOLEAN
    /\ cfgFile \in {AbsentFile} \cup (IF wsDir THEN {JsonFile(c) : c \in WalkConfigs} ELSE {})
    /\ wsState = "none"
    /\ config = EmptyConfig
    /\ files = {}
    /\ file_listeners = <<>>
    /\ op = [name |-> "none"]
    /\ GraphVarsIdle

NextWalk ==
    \/ \E n \in Nodes : \E k \in NodeKinds(n) : EnvCreate(n, k)
    \/ \E n \in Nodes : EnvRemove(n)
    \/ Construct(FALSE)
    \/ reload_file_list
    \/ \E cb \in Listeners : AppendListener(cb)

SpecWalk == InitWalk /\ [][NextWalk]_vars

-----------------------------------------------------------------------------
(* SpecConfig: on a fixed tree, the workspace directory and its config     *)
(* file come and go, workspaces are constructed and dropped, and the       *)
(* setters are called.                                                     *)

MaxOpen == 2         \* longest list handed to the open_files setter

StaticTree ==
    [n \in Nodes |-> IF n \in {<<NR, NF>>, <<NR, ND, NF>>} THEN "file"
                     ELSE IF n = <<NR, ND>> THEN "dir" ELSE "none"]

OpenPaths ==
    { Path(StaticTree, NF, RootR),
      Path(StaticTree, <<"d", "/", "f">>, RootR),
      Path(StaticTree, <<"/", "r", "/", "d", "/", "f">>, RootD) }

OpenLists == UNION { [1..n -> OpenPaths] : n \in 0..MaxOpen }

EnvFiles ==
    { JsonFile([open_files |-> <<NF, <<"d", "/", "f">>>>]),
      JsonFile([root_dir |-> RootD]),
      [kind |-> "garbage"],
      [kind |-> "noaccess"] }

InitConfig ==
    /\ PathVarsIdle
    /\ fs = StaticTree
    /\ wsDir = FALSE
    /\ cfgFile = AbsentFile
    /\ wsState = "none"
    /\ config = EmptyConfig
    /\ files = {}
    /\ file_listeners = <<>>
    /\ op = [name |-> "none"]
    /\ GraphVarsIdle

NextConfig ==
    \/ EnvMkdirWs
    \/ EnvRmtreeWs
    \/ \E file \in EnvFiles : EnvWriteConfig(file)
    \/ \E must_exist \in BOOLEAN : Construct(must_exist)
    \/ Discard
    \/ \E L \in OpenLists : SetOpenFiles(L)
    \/ \E root \in {RootR, RootD} : SetRootDir(root)

SpecConfig == InitConfig /\ [][NextConfig]_vars

-----------------------------------------------------------------------------
(* SpecFrame: on the fixed tree, a Workspace is constructed, listeners are *)
(* registered, and setters, getters and reloads are called in any order.   *)

InitFrame ==
    /\ PathVarsIdle
    /\ fs = StaticTree
    /\ wsDir \in BOOLEAN
    /\ cfgFile = AbsentFile
    /\ wsState = "none"
    /\ config = EmptyConfig
    /\ files = {}
    /\ file_listeners = <<>>
    /\ op = [name |-> "none"]
    /\ GraphVarsIdle

NextFrame ==
    \/ Construct(FALSE)
    \/ reload_file_list
    \/ \E cb \in Listeners : AppendListener(cb)
    \/ \E L \in OpenLists : SetOpenFiles(L)
    \/ \E root \in {RootR, RootD} : SetRootDir(root)
    \/ \E name \in Getters : ReadProperty(name)

SpecFrame == InitFrame /\ [][NextFrame]_vars

-----------------------------------------------------------------------------
(* SpecLoad: a PyFile object is constructed on a source text of up to      *)
(* MaxStmts import statements; it loads once, in its constructor.          *)

MaxStmts == 2        \* most import statements in a source text

Npqm == <<"p", "q", "m">>
Npq == <<"p", "q">>
Npn == <<"p", "n">>
Np == <<"p">>
Npx == <<"p", "x">>
Npnm == <<"p", "n", "m">>
Nz == <<"z">>

As == <<"a">>

Stmts ==
    { Import(<<Alias(Npqm, NoAs)>>),
      Import(<<Alias(Npn, As), Alias(Npqm, <<"m">>)>>),
      Import(<<Alias(Npq, NoAs)>>),
      Import(<<Alias(Npx, NoAs)>>),
      Import(<<Alias(Npx, NoAs), Alias(Npn, NoAs)>>),
      Import(<<Alias(Npnm, NoAs)>>),
      ImportFrom(Npq, <<Alias("m", NoAs)>>),
      ImportFrom(Npq, <<Alias("C", NoAs)>>),
      ImportFrom(Npq, <<Alias("C", NoAs), Alias("m", As)>>),
      ImportFrom(Np, <<Alias("n", NoAs), Alias("q", NoAs)>>),
      ImportFrom(Npn, <<Alias("C", NoAs)>>),
      ImportFrom(Nz, <<Alias("m", NoAs)>>) }

Texts == {Malformed, Undecodable} \cup { Source(b) : b \in UNION { [1..n -> Stmts] : n \in 0..MaxStmts } }

\* PyFile(path, workspace, finder, no_load) on a file holding the text
NewPyFile(text, no_load) ==
    /\ ~pyfile.called
    /\ LET r == PyFile(fs, config, text, no_load) IN
       pyfile' = [called |-> TRUE, text |-> text, no_load |-> no_load,
                  raised |-> r.raised, error |-> r.error, imports |-> r.imports,
                  resolve_calls |-> r.resolve_calls, logged |-> r.logged]
    /\ UNCHANGED <<pathVars, wsVars, vertices, visits, lateAdd>>

InitLoad == PathVarsIdle /\ WsVarsIdle /\ GraphVarsIdle

NextLoad == \E text \in Texts, no_load \in BOOLEAN : NewPyFile(text, no_load)

SpecLoad == InitLoad /\ [][NextLoad]_vars

-----------------------------------------------------------------------------
(* SpecGraph: vertices are added to the graph for three files, and the     *)
(* link step (PyFile.visit) of a vertex is run, at most MaxVisits times.   *)

MaxVisits == 2       \* most link steps of one vertex

FileS == <<"/", "r", "/", "s">>

VFiles == {FileS, FileM, FileN}

GraphTexts ==
    { Source(<<>>), Malformed,
      Source(<<Import(<<Alias(Npn, NoAs), Alias(Npqm, NoAs)>>)>>),
      Source(<<ImportFrom(Npq, <<Alias("m", NoAs)>>)>>),
      Source(<<Import(<<Alias(Npn, NoAs)>>)>>) }

NoVertex == [present |-> FALSE, imports |-> {}, outgoing |-> {}, incoming |-> {}]

\* edge.Edge(edge.EdgeType.IMPORT, source, dest)
Edge(source, dest) == [type |-> "import", source |-> source, dest |-> dest]

\* the Path of the vertex of a file
VertexPath(f) == Path(fs, f, root_dir(config))

\* SourceGraph.find_file: the vertices whose canonical path is that of i
find_file(verts, i) ==
    { g \in VFiles : verts[g].present /\ VertexPath(g).abs = i.abs }

\* a link step that forgets the destination's incoming set
visit_outgoing_only(verts, f) ==
    LET dests == UNION { find_file(verts, i) : i \in verts[f].imports } IN
    [g \in VFiles |->
        IF g = f
        THEN [verts[g] EXCEPT !.outgoing = @ \cup { Edge(f, d) : d \in dests }]
        ELSE verts[g]]

\* a link step that adds the edge to the incoming set of the source
visit_incoming_on_self(verts, f) ==
    LET dests == UNION { find_file(verts, i) : i \in verts[f].imports } IN
    [g \in VFiles |->
        IF g = f
        THEN [verts[g] EXCEPT !.outgoing = @ \cup { Edge(f, d) : d \in dests },
                              !.incoming = @ \cup { Edge(f, d) : d \in dests }]
        ELSE verts[g]]

\* PyFile.visit: the vertices after the link step of f
visit(verts, f) ==
    LET dests == UNION { find_file(verts, i) : i \in verts[f].imports } IN
    [g \in VFiles |->
        [verts[g] EXCEPT
            !.outgoing = IF g = f THEN @ \cup { Edge(f, d) : d \in dests } ELSE @,
            !.incoming = IF g \in dests THEN @ \cup { Edge(f, g) } ELSE @]]

\* new_file(path, workspace, external) and the addition of the vertex
AddVertex(f, text, external) ==
    /\ ~vertices[f].present
    /\ LET r == PyFile(fs, config, text, external) IN
       /\ ~r.raised
       /\ vertices' = [vertices EXCEPT ![f] =
                          [present |-> TRUE, imports |-> r.imports,
                           outgoing |-> {}, incoming |-> {}]]
    /\ lateAdd' = (lateAdd \/ \E g \in VFiles : visits[g] > 0)
    /\ UNCHANGED <<pathVars, wsVars, pyfile, visits>>

Visit(f) ==
    /\ vertices[f].present
    /\ visits[f] < MaxVisits
    /\ vertices' = visit(vertices, f)
    /\ visits' = [visits EXCEPT ![f] = @ + 1]
    /\ UNCHANGED <<pathVars, wsVars, pyfile, lateAdd>>

InitGraph ==
    /\ PathVarsIdle
    /\ WsVarsIdle
    /\ pyfile = NoPyFile
    /\ vertices = [f \in VFiles |-> NoVertex]
    /\ visits = [f \in VFiles |-> 0]
    /\ lateAdd = FALSE

NextGraph ==
    \/ \E f \in VFiles, text \in GraphTexts, external \in BOOLEAN :
          AddVertex(f, text, external)
    \/ \E f \in VFiles : Visit(f)

SpecGraph == InitGraph /\ [][NextGraph]_vars

-----------------------------------------------------------------------------
(* Claims about Path.abbreviate, checked under SpecPath *)

Abbreviated == call.name = "abbreviate"

Occurrences(s) == { i \in 1..(Len(s) - 1) : s[i] = "." /\ s[i + 1] = "." }

EndsWith(s, t) == Len(t) <= Len(s) /\ SubSeq(s, Len(s) - Len(t) + 1, Len(s)) = t

Elided == Abbreviated /\ Len(shortest(path)) > call.max_len

\* the result is the first pc characters of the rendering, the marker, and
\* the last sc characters of the rendering
PrefixMarkerSuffix(pc, sc) ==
    call.result = SubSeq(shortest(path), 1, pc) \o <<".", ".">>
                  \o SubSeq(shortest(path), Len(shortest(path)) - sc + 1, Len(shortest(path)))

-----------------------------------------------------------------------------
(* Claims about reload_file_list, checked under SpecWalk *)

Reloaded == op.name = "reload"

ExpectedCall(i) ==
    [listener |-> file_listeners[i],
     removed |-> op.old \ files,
     added |-> files \ op.old]

\* C1 as stated: one call of reload_file_list replaces the stored set with
\* the result of the new walk and invokes every registered listener exactly
\* once, in registration order, with removed = old - new and added =
\* new - old, also when both are empty.
C1_EveryListenerNotified ==
    Reloaded =>
        /\ files = Walk(fs, root_dir(config), exclude_files(config))
        /\ op.calls = [i \in 1..Len(file_listeners) |-> ExpectedCall(i)]

\* C1 amended: the stored set is replaced by the result of the new walk and
\* the listeners are invoked in registration order, each once, with
\* (old - new, new - old), also when both are empty, up to and including
\* the first listener that raises; when no listener raises, every
\* registered listener is invoked.
C1_ListenersNotifiedUntilRaise ==
    Reloaded =>
        /\ files = Walk(fs, root_dir(config), exclude_files(config))
        /\ Len(op.calls) <= Len(file_listeners)
        /\ \A i \in 1..Len(op.calls) : op.calls[i] = ExpectedCall(i)
        /\ ~op.raised => Len(op.calls) = Len(file_listeners)
        /\ op.raised => Len(op.calls) >= 1

\* C1 witness: a reload with two listeners, neither raising, after one file
\* was removed and another added.
C1_Witness ==
    /\ Reloaded
    /\ ~op.raised
    /\ Len(op.calls) = 2
    /\ op.calls[1].listener # op.calls[2].listener
    /\ op.calls[2].removed # {}
    /\ op.calls[2].added # {}

-----------------------------------------------------------------------------
(* Claims about the content of Workspace.files, checked under SpecWalk *)

Walked == wsState = "ok" /\ op.name \in {"construct", "reload"}

RootNode == AbsComps(root_dir(config))

BelowRoot(n) ==
    Len(n) > Len(RootNode) /\ SubSeq(n, 1, Len(RootNode)) = RootNode

\* no component of the root-relative path of n is hidden or excluded
Listed(n) ==
    \A i \in (Len(RootNode) + 1)..Len(n) :
        ~Hidden(n[i]) /\ ~InList(n[i], exclude_files(config))

\* C2 as stated: after construction and after every reload, files is
\* exactly the set of files and directories below the root for which no
\* component of the root-relative path starts with '.' or is a name of
\* exclude_files; no member of files has such a component.
C2_FilesAreTheListedEntries ==
    Walked =>
        /\ files = { Path(fs, Render(n), root_dir(config)) :
                        n \in { m \in Nodes : /\ fs[m] \in {"file", "dir"}
                                              /\ BelowRoot(m)
                                              /\ Listed(m) } }
        /\ \A p \in files : BelowRoot(AbsComps(p.abs)) /\ Listed(AbsComps(p.abs))

\* C2 amended: after construction and after every reload, files is exactly
\* the set of canonical paths (symbolic links resolved) of the entries below
\* the root, symbolic links included and not descended into, for which no
\* component of the entry's own root-relative path starts with '.' or is a
\* name of exclude_files.
C2_FilesAreTheListedEntriesResolved ==
    Walked =>
        files = { Path(fs, Render(Canon(fs, <<>>, n)), root_dir(config)) :
                     n \in { m \in Nodes : /\ fs[m] # "none"
                                           /\ BelowRoot(m)
                                           /\ Listed(m) } }

\* C2 witness: a reload from /r with exclude_files = [f] over a tree with a
\* hidden directory holding a file, a directory holding a hidden file and
\* an excluded file, and a symbolic link to the file in the hidden directory.
C2_Witness ==
    /\ Walked
    /\ op.name = "reload"
    /\ root_dir(config) = RootR
    /\ exclude_files(config) = <<NF>>
    /\ fs[<<NR, NH, NF>>] = "file"
    /\ fs[<<NR, ND, NH>>] = "file"
    /\ fs[<<NR, ND, NF>>] = "file"
    /\ fs[<<NR, NL>>] = "linkH"
    /\ Cardinality(files) = 2

-----------------------------------------------------------------------------
(* Claims about the config and construction, checked under SpecConfig *)

SetterNames == {"set_open_files", "set_root_dir"}

\* the strings of a list of Paths, each relative to the given root
RelativeTo(L, root) == [i \in 1..Len(L) |-> relpath(L[i].abs, root)]

\* the strings of a list of Paths, each relative to its own remembered root
RootRelative(L) == [i \in 1..Len(L) |-> relpath(L[i].abs, L[i].ws_root)]

\* C7: when the workspace directory does not exist, a setter changes the
\* in-memory config, writes no config file and creates no directory: the
\* directory still does not exist after the call.
C7_SetterWritesNothingWithoutDir ==
    [][ (~wsDir /\ op'.name \in SetterNames) =>
            /\ ~wsDir'
            /\ cfgFile' = cfgFile
            /\ cfgFile'.kind = "absent"
            /\ op'.name = "set_open_files" =>
                  config' = SetKey(config, "open_files", RootRelative(op'.arg))
            /\ op'.name = "set_root_dir" =>
                  config' = SetKey(config, "root_dir", op'.arg) ]_vars

\* C7 witness: open_files was set to a list of two paths while the
\* workspace directory did not exist.
C7_Witness ==
    /\ op.name = "set_open_files"
    /\ ~wsDir
    /\ Len(op.arg) = 2
    /\ Get(config, "open_files", <<>>) = RootRelative(op.arg)

OpenFilesSet == op.name = "set_open_files" /\ wsDir

\* what a new Workspace constructed on the directory reads
FreshConfig == load_config(wsDir, cfgFile)

RoundTrip ==
    /\ cfgFile.kind = "json"
    /\ "open_files" \in DOMAIN cfgFile.value
    /\ cfgFile.value["open_files"] = RelativeTo(op.arg, root_dir(config))
    /\ open_files(fs, config) = op.arg
    /\ ~FreshConfig.raised
    /\ open_files(fs, FreshConfig.config) = op.arg

\* C8 as stated: with the workspace directory present, for any list L of
\* Paths, after open_files = L the config file holds the root-relative
\* strings of L in order, and open_files read on the same Workspace or on
\* a new one constructed on the directory equals L.
C8_OpenFilesRoundTrip == OpenFilesSet => RoundTrip

\* C8 amended: the same, for any list L of Paths whose remembered root is
\* the workspace's root_dir, when the config file can be written.
C8_OpenFilesRoundTripSameRoot ==
    ( /\ OpenFilesSet
      /\ \A i \in 1..Len(op.arg) : op.arg[i].ws_root = root_dir(config)
      /\ cfgFile.kind # "noaccess" ) => RoundTrip

\* C8 witness: open_files was set to two different paths of the workspace's
\* root with the directory present, and the config file holds them.
C8_Witness ==
    /\ OpenFilesSet
    /\ Len(op.arg) = 2
    /\ op.arg[1] # op.arg[2]
    /\ \A i \in 1..Len(op.arg) : op.arg[i].ws_root = root_dir(config)
    /\ cfgFile.kind = "json"

\* C9: construction fails if and only if must_exist is set and the
\* workspace directory is absent, and then neither the config is loaded nor
\* the directory walked; in every other case, whatever the config file is,
\* construction completes and has performed the initial reload.
C9_ConstructFailsOnlyWithoutDir ==
    op.name = "construct" =>
        /\ (wsState = "failed") <=> (op.must_exist /\ ~wsDir)
        /\ wsState = "failed" => ~op.load_called /\ ~op.walked
        /\ wsState = "ok" =>
              /\ op.walked
              /\ files = Walk(fs, root_dir(config), exclude_files(config))

-----------------------------------------------------------------------------
(* Claims about PyFile._load.  What a dotted name should load is stated    *)
(* on the module tree itself: p and p.q are packages, p.q.m and p.n are    *)
(* modules.                                                                *)

Packages == { <<"p">>, <<"p", "q">> }
Modules == { <<"p", "q", "m">>, <<"p", "n">> }

FileOfName(name) ==
    IF name = <<"p">> THEN <<"/", "p", "/", "i">>
    ELSE IF name = <<"p", "q">> THEN <<"/", "p", "/", "q", "/", "i">>
    ELSE IF name = <<"p", "q", "m">> THEN <<"/", "p", "/", "q", "/", "m">>
    ELSE <<"/", "p", "/", "n">>

Prefixes(name) == { SubSeq(name, 1, k) : k \in 1..Len(name) }

Resolves(name) ==
    /\ name \in Packages \cup Modules
    /\ Prefixes(name) \ {name} \subseteq Packages

FilesOf(name) ==
    { [abs |-> FileOfName(n), ws_root |-> <<"/", "r">>] : n \in Prefixes(name) }

Loaded == pyfile.called /\ ~pyfile.no_load

StmtsOf(type) ==
    /\ pyfile.text.ok
    /\ pyfile.text.body # <<>>
    /\ \A k \in 1..Len(pyfile.text.body) : pyfile.text.body[k].type = type

NamesOfStmt(stmt) == { stmt.names[i].name : i \in 1..Len(stmt.names) }

BodyStmts == { pyfile.text.body[k] : k \in 1..Len(pyfile.text.body) }

\* C3: a file of `import` statements all of whose names resolve has as
\* imports exactly the files of the names: the initializer of every package
\* traversed and the file of the last segment, with or without aliases.
C3_ImportLoadsFilesOfNames ==
    (/\ Loaded
     /\ StmtsOf("Import")
     /\ \A st \in BodyStmts : \A n \in NamesOfStmt(st) : Resolves(n))
    => /\ ~pyfile.raised
       /\ pyfile.imports =
             UNION { FilesOf(n) : n \in UNION { NamesOfStmt(st) : st \in BodyStmts } }

C3_Witness ==
    /\ Loaded
    /\ pyfile.text.ok
    /\ pyfile.text.body =
          <<[type |-> "Import", module |-> <<>>,
             names |-> <<[name |-> <<"p", "n">>, asname |-> <<"a">>],
                         [name |-> <<"p", "q", "m">>, asname |-> <<"m">>]>>]>>
    /\ Cardinality(pyfile.imports) = 4

FromFiles(st) ==
    FilesOf(st.module)
    \cup UNION { FilesOf(Append(st.module, y)) :
                   y \in { z \in NamesOfStmt(st) : Resolves(Append(st.module, z)) } }

\* C4: a file of `from M import y1, ..., yn` statements whose M resolves has
\* as imports the files of M united with the files of each M.yi that
\* resolves; a yi that does not resolve adds nothing and raises nothing.
C4_FromImportLoadsModuleAndSubmodules ==
    (/\ Loaded
     /\ StmtsOf("ImportFrom")
     /\ \A st \in BodyStmts : Resolves(st.module))
    => /\ ~pyfile.raised
       /\ pyfile.imports = UNION { FromFiles(st) : st \in BodyStmts }

C4_Witness ==
    /\ Loaded
    /\ pyfile.text.ok
    /\ pyfile.text.body =
          <<[type |-> "ImportFrom", module |-> <<"p", "q">>,
             names |-> <<[name |-> "C", asname |-> <<>>],
                         [name |-> "m", asname |-> <<"a">>]>>]>>
    /\ ~pyfile.raised
    /\ Cardinality(pyfile.imports) = 3

\* what one statement should contribute: for `import`, the files of the
\* names that resolve; for `from M import`, the files of M and of each M.y
\* that resolve
Contribution(st) ==
    IF st.type = "Import"
    THEN UNION { FilesOf(n) : n \in { x \in NamesOfStmt(st) : Resolves(x) } }
    ELSE UNION { FilesOf(n) :
                   n \in { x \in {st.module} \cup { Append(st.module, y) : y \in NamesOfStmt(st) } :
                             Resolves(x) } }

UnresolvedImport ==
    \E st \in BodyStmts : st.type = "Import" /\ \E n \in NamesOfStmt(st) : ~Resolves(n)

\* C12: when a plain `import` name of a file does not resolve, load raises
\* nothing, the name contributes no path, and every other name of the file
\* is still handed to the resolver and contributes all of its files.
C12_UnresolvedImportSkipped ==
    (Loaded /\ pyfile.text.ok /\ UnresolvedImport)
    => /\ ~pyfile.raised
       /\ pyfile.imports = UNION { Contribution(st) : st \in BodyStmts }
       /\ { pyfile.resolve_calls[j] : j \in 1..Len(pyfile.resolve_calls) } =
             UNION { IF st.type = "Import" THEN NamesOfStmt(st)
                     ELSE {st.module} \cup { Append(st.module, y) : y \in NamesOfStmt(st) } :
                     st \in BodyStmts }

\* C12 witness: `import p.x, p.n` with p.x unresolvable loads the files of
\* p.n, both names having been handed to the resolver.
C12_Witness ==
    /\ Loaded
    /\ pyfile.text.ok
    /\ Len(pyfile.text.body) = 1
    /\ pyfile.text.body[1].type = "Import"
    /\ pyfile.resolve_calls = << <<"p", "x">>, <<"p", "n">> >>
    /\ ~pyfile.raised
    /\ pyfile.imports = { [abs |-> <<"/", "p", "/", "i">>, ws_root |-> <<"/", "r">>],
                          [abs |-> <<"/", "p", "/", "n">>, ws_root |-> <<"/", "r">>] }

\* C5: loading a file whose text is not valid syntax does not raise: the
\* vertex is created with no imports and the resolver is never called.
C5_InvalidSourceLoadsEmpty ==
    (Loaded /\ ~pyfile.text.ok)
    => /\ ~pyfile.raised
       /\ pyfile.imports = {}
       /\ pyfile.resolve_calls = <<>>

-----------------------------------------------------------------------------
(* Claims about PyFile.visit.                                              *)

Present == { f \in VFiles : vertices[f].present }

PathOfVertex(f) == [abs |-> f, ws_root |-> <<"/", "r">>]

Imports(f, g) == PathOfVertex(g) \in vertices[f].imports

ImportEdge(f, g) == [type |-> "import", source |-> f, dest |-> g]

AllAddedThenLinkedOnce ==
    /\ ~lateAdd
    /\ Present # {}
    /\ \A f \in Present : visits[f] = 1

\* C6: once every vertex has been added and then linked once, the edges are
\* exactly the Import edges A->B with B a vertex whose path is in A.imports,
\* each in A.outgoing and in B.incoming; an import without a vertex gives
\* no edge.
C6_EdgesAreImportsBetweenVertices ==
    AllAddedThenLinkedOnce
    => \A f \in Present :
          /\ vertices[f].outgoing = { ImportEdge(f, g) : g \in { h \in Present : Imports(f, h) } }
          /\ vertices[f].incoming = { ImportEdge(g, f) : g \in { h \in Present : Imports(h, f) } }

C6_Witness ==
    /\ AllAddedThenLinkedOnce
    /\ Present = VFiles
    /\ Cardinality(vertices[<<"/", "r", "/", "s">>].outgoing) = 2
    /\ vertices[<<"/", "p", "/", "n">>].incoming # {}
    /\ \E i \in vertices[<<"/", "r", "/", "s">>].imports :
          \A f \in Present : PathOfVertex(f) # i

AllEdges == UNION { vertices[f].outgoing \cup vertices[f].incoming : f \in VFiles }

\* C13: in every state reached by adding vertices and running link steps in
\* any order and number, an edge is in the outgoing set of its source
\* exactly when it is in the incoming set of its destination, the edges in
\* X.outgoing have source X, those in X.incoming have destination X, and
\* every edge has kind Import.
C13_EdgesStoredAtBothEnds ==
    /\ \A e \in AllEdges :
          /\ e.type = "import"
          /\ e.source \in Present /\ e.dest \in Present
          /\ e \in vertices[e.source].outgoing <=> e \in vertices[e.dest].incoming
    /\ \A f \in VFiles :
          /\ \A e \in vertices[f].outgoing : e.source = f
          /\ \A e \in vertices[f].incoming : e.dest = f

\* C13 witness: one vertex has been linked twice and holds an edge while
\* another vertex with imports has not been linked yet.
C13_Witness ==
    \E f, g \in Present :
        /\ visits[f] = 2
        /\ vertices[f].outgoing # {}
        /\ f # g
        /\ visits[g] = 0
        /\ vertices[g].imports # {}
        /\ \E h \in Present : vertices[h].incoming # {} /\ h # f

-----------------------------------------------------------------------------
(* Claims about what changes Workspace.files, checked under SpecFrame *)

\* C14: files changes only in reload_file_list (which the constructor
\* runs): a step of a config setter or of a getter leaves files as it was
\* and calls no listener, so after root_dir is set files still holds the
\* entries of the last walk.
C14_FilesChangeOnlyInReload ==
    [][ /\ files' # files => op'.name \in {"reload", "construct"}
        /\ op'.name \in SetterNames \cup {"get"} =>
              /\ files' = files
              /\ op'.calls = <<>> ]_vars

\* C14 witness: root_dir was set to /r/d with a listener registered, and
\* files still holds the entries found under /r.
C14_Witness ==
    /\ op.name = "set_root_dir"
    /\ op.arg = <<"/", "r", "/", "d">>
    /\ root_dir(config) = <<"/", "r", "/", "d">>
    /\ file_listeners # <<>>
    /\ [abs |-> <<"/", "r", "/", "f">>, ws_root |-> <<"/", "r">>] \in files
    /\ files # Walk(fs, root_dir(config), exclude_files(config))

-----------------------------------------------------------------------------
(* Claims about Path.in_workspace, checked under SpecPath *)

\* the components of a canonical absolute path
Components(s) == Tail(Split(s))

\* the path is the canonical root directory or lies below it
UnderRoot(p) ==
    LET pc == Components(p.abs)
        rc == Components(realpath(fs, p.ws_root))
    IN Len(rc) <= Len(pc) /\ SubSeq(pc, 1, Len(rc)) = rc

\* C15: in_workspace is true exactly when the canonical absolute path is
\* the workspace root directory or a descendant of it; a sibling whose name
\* only starts with the root's name gives false.
C15_InWorkspaceIffUnderRoot ==
    call.name = "in_workspace" => (call.result <=> UnderRoot(path))

-----------------------------------------------------------------------------
(* Claims about the comparison operators of Path, checked under SpecPath *)

\* C16: for any two Paths a and b exactly one of a < b, a == b, a > b
\* holds, and a <= b together with b <= a implies a == b and equal hashes.
C16_ComparisonsFormTotalOrder ==
    call.name = "compare" =>
        /\ Cardinality({ k \in {"lt", "eq", "gt"} : call[k] }) = 1
        /\ call.ne = ~call.eq
        /\ (call.le /\ call.rev_le) => (call.eq /\ call.hash = call.other_hash)

=============================================================================
